---- MODULE Spec2Model ----
(***************************************************************************)
(* Model of ext/geos_c_impl/factory.c: the factory object (one GEOS        *)
(* context plus lazily created reader/writer handles), the geometry        *)
(* wrapper object (zero or one native geometry handle, a reference to its  *)
(* factory, optional member classes), the wrap / unwrap / detach protocol, *)
(* the mark-and-sweep collector that calls the mark and destroy callbacks, *)
(* and the coordinate-sequence comparison.                                 *)
(***************************************************************************)
EXTENDS Integers, Sequences, FiniteSets, TLC

(* ---------------------------------------------------------------- bounds *)

MaxFactories == 2
MaxLifeFactories == 1
MaxParsed == 1
MaxWrappers == 2
MaxGeoms == 2
MaxLen == 2

FactoryIds == 1..MaxFactories
WrapperIds == 1..MaxWrappers
GeomIds == 1..MaxGeoms

(* ------------------------------------------------------- managed values *)

\* A nil object reference (Qnil) and a null native pointer (NULL).
NIL == 0
NULL == 0

\* Class-valued VALUEs: nil, a class (T_CLASS) or an array of classes (T_ARRAY).
Qnil == [t |-> "nil", name |-> "", elems |-> <<>>]
Class(n) == [t |-> "class", name |-> n, elems |-> <<>>]
Array(s) == [t |-> "array", name |-> "", elems |-> s]
TYPE(v) == v.t
NIL_P(v) == v = Qnil

\* GEOS geometry type ids; OtherKind stands for any id the switch does not name.
GEOS_POINT == 0
GEOS_LINESTRING == 1
GEOS_LINEARRING == 2
GEOS_POLYGON == 3
GEOS_MULTIPOINT == 4
GEOS_MULTILINESTRING == 5
GEOS_MULTIPOLYGON == 6
GEOS_GEOMETRYCOLLECTION == 7
OtherKind == 8
Kinds == GEOS_POINT..OtherKind

\* The classes held by RGeo_Globals, read by the switch of rgeo_wrap_geos_geometry.
Globals ==
  [geos_point |-> Class("Point"),
   geos_line_string |-> Class("LineString"),
   geos_linear_ring |-> Class("LinearRing"),
   geos_polygon |-> Class("Polygon"),
   geos_multi_point |-> Class("MultiPoint"),
   geos_multi_line_string |-> Class("MultiLineString"),
   geos_multi_polygon |-> Class("MultiPolygon"),
   geos_geometry_collection |-> Class("GeometryCollection"),
   geos_geometry |-> Class("Geometry")]

\* Mutant: the LinearRing case falls into the LineString case.
InferredKlass_RingAsLineString(kind) ==
  CASE kind = GEOS_POINT -> Globals.geos_point
    [] kind \in {GEOS_LINESTRING, GEOS_LINEARRING} -> Globals.geos_line_string
    [] kind = GEOS_POLYGON -> Globals.geos_polygon
    [] kind = GEOS_MULTIPOINT -> Globals.geos_multi_point
    [] kind = GEOS_MULTILINESTRING -> Globals.geos_multi_line_string
    [] kind = GEOS_MULTIPOLYGON -> Globals.geos_multi_polygon
    [] kind = GEOS_GEOMETRYCOLLECTION -> Globals.geos_geometry_collection
    [] OTHER -> Globals.geos_geometry

\* The switch of rgeo_wrap_geos_geometry: the class inferred for a type id.
InferredKlass(kind) ==
  CASE kind = GEOS_POINT -> Globals.geos_point
    [] kind = GEOS_LINESTRING -> Globals.geos_line_string
    [] kind = GEOS_LINEARRING -> Globals.geos_linear_ring
    [] kind = GEOS_POLYGON -> Globals.geos_polygon
    [] kind = GEOS_MULTIPOINT -> Globals.geos_multi_point
    [] kind = GEOS_MULTILINESTRING -> Globals.geos_multi_line_string
    [] kind = GEOS_MULTIPOLYGON -> Globals.geos_multi_polygon
    [] kind = GEOS_GEOMETRYCOLLECTION -> Globals.geos_geometry_collection
    [] OTHER -> Globals.geos_geometry

\* The switch of rgeo_wrap_geos_geometry: the cases that set is_collection.
IsCollectionKind(kind) ==
  kind \in {GEOS_MULTIPOINT, GEOS_MULTILINESTRING, GEOS_MULTIPOLYGON,
            GEOS_GEOMETRYCOLLECTION}

(* --------------------------------------------------------------- inputs *)

\* The C int range of NUM2INT / INT2NUM.
IntMax == 2147483647
IntMin == (-2147483647) - 1

\* NUM2INT: a Ruby Integer in the int range converts to itself, anything else
\* raises RangeError (reported as "raise").
NUM2INT(v) == IF v >= IntMin /\ v <= IntMax THEN [ok |-> TRUE, int |-> v]
              ELSE [ok |-> FALSE, int |-> 0]
\* INT2NUM: every C int is representable as a Ruby Integer.
INT2NUM(i) == i

\* Arguments of Factory._create drawn by the model: (flags, srid, buffer_resolution).
CreateArgs == {<<0, 4326, 1>>, <<3, IntMin, 8>>, <<IntMax, 0, 16>>}

\* SRIDs the engine's readers may leave on a parsed geometry (0 for WKT, an
\* embedded one for EWKB).
ParsedSrids == {0, 31370}
\* Kinds the engine's readers produce in the lifecycle specification.
ParsedKinds == {GEOS_POINT, GEOS_GEOMETRYCOLLECTION}
\* Class hints callers pass to rgeo_wrap_geos_geometry.
ArrayHint == Array(<<"Point", "LineString">>)
KlassHints == {Qnil, Class("Point"), ArrayHint}
\* The type argument of the cast collaborator: nil or a feature type.
TypeArgs == {Qnil, Class("Point")}

(* ---------------------------------------------------------------- state *)

VARIABLES
  factories,    \* FactoryIds -> RGeo_FactoryData plus the managed object's state
  wrappers,     \* WrapperIds -> RGeo_GeometryData plus the managed object's state
  geoms,        \* GeomIds -> native GEOSGeometry: state, context, kind, SRID, destroy count
  contexts,     \* FactoryIds -> GEOS context: state, finish count, helpers created/destroyed
  roots,        \* managed objects an external holder (stack, variable) still references
  callerOwned,  \* native geometry handles owned by C callers (moved out by Detach)
  gc,           \* collector position: phase, objects marked, objects left to sweep
  last,         \* the last call made and what it returned and did (observer)
  createArgs,   \* FactoryIds -> the arguments _create was called with (observer)
  faulted,      \* the process has crashed (memory fault)
  eq            \* inputs and result of the last rgeo_geos_coordseqs_eql call

vars == <<factories, wrappers, geoms, contexts, roots, callerOwned, gc, last,
          createArgs, faulted, eq>>
lifeVars == <<factories, wrappers, geoms, contexts, roots, callerOwned, gc, last,
              createArgs, faulted>>

HelperKinds == {"wkt_reader", "wkb_reader", "wkt_writer", "wkb_writer"}

NoFactory ==
  [state |-> "unused", geos_context |-> NULL, flags |-> 0, srid |-> 0,
   buffer_resolution |-> 0, wkt_reader |-> NULL, wkb_reader |-> NULL,
   wkt_writer |-> NULL, wkb_writer |-> NULL]
NoWrapper ==
  [state |-> "unused", klass |-> Qnil, geom |-> NULL, geos_context |-> NULL,
   factory |-> NIL, klasses |-> Qnil]
NoGeom == [state |-> "unused", context |-> NULL, kind |-> 0, srid |-> 0, destroys |-> 0]
NoContext ==
  [state |-> "none", finishes |-> 0,
   created |-> [k \in HelperKinds |-> 0], destroyed |-> [k \in HelperKinds |-> 0],
   log |-> <<>>]
GcIdle == [phase |-> "idle", marked |-> {}, pending |-> {}]

\* What a call reports: its name and arguments, the VALUE / handle / integer it
\* returned, and which collaborator calls it made.
NoLast ==
  [op |-> "none", factory |-> NIL, obj |-> NIL, type |-> Qnil, hint |-> Qnil,
   in_geom |-> NULL, result |-> NIL, geom |-> NULL, value |-> 0,
   klasses |-> Qnil, raised |-> FALSE, reader_ok |-> TRUE, read_ok |-> TRUE,
   alloc_ok |-> TRUE, context_ok |-> TRUE, cast_called |-> FALSE, kind_queried |-> FALSE,
   registry_read |-> FALSE, srid_set |-> FALSE, stale_context |-> FALSE,
   frees |-> 0, registered |-> FALSE, reused |-> FALSE, want_klasses |-> FALSE]

F(i) == <<"F", i>>
W(i) == <<"W", i>>

NoEq == [called |-> FALSE]

LifeInit ==
  /\ factories = [f \in FactoryIds |-> NoFactory]
  /\ wrappers = [w \in WrapperIds |-> NoWrapper]
  /\ geoms = [g \in GeomIds |-> NoGeom]
  /\ contexts = [c \in FactoryIds |-> NoContext]
  /\ roots = {}
  /\ callerOwned = {}
  /\ gc = GcIdle
  /\ last = NoLast
  /\ createArgs = [f \in FactoryIds |-> <<>>]
  /\ faulted = FALSE

Init == LifeInit /\ eq = NoEq

\* The mutator runs only between collections and only while the process lives.
Running == gc.phase = "idle" /\ ~faulted

UnusedFactories == {f \in FactoryIds : factories[f].state = "unused"}
UnusedWrappers == {w \in WrapperIds : wrappers[w].state = "unused"}
UnusedGeoms == {g \in GeomIds : geoms[g].state = "unused"}
Min(S) == CHOOSE x \in S : \A y \in S : x <= y

\* Objects a caller can name: alive and externally referenced.
HeldFactories == {f \in FactoryIds : factories[f].state = "alive" /\ F(f) \in roots}
HeldWrappers == {w \in WrapperIds : wrappers[w].state = "alive" /\ W(w) \in roots}

(* -------------------------------------------------------------- factory *)

\* Mutant: the storage is kept when initGEOS_r fails.
CreateFrees_Never(dataOk, contextOk) == 0

\* How many times cmethod_factory_create calls free(data): once, in the else
\* branch of `if (context)`.
CreateFrees(dataOk, contextOk) == IF dataOk /\ ~contextOk THEN 1 ELSE 0

\* cmethod_factory_create: ALLOC, initGEOS_r, fill the fields, Data_Wrap_Struct.
\* dataOk / contextOk: whether ALLOC / initGEOS_r returned non-NULL.
cmethod_factory_create(args, dataOk, contextOk) ==
  /\ Running
  /\ UnusedFactories # {}
  /\ LET f == Min(UnusedFactories)
         flags == NUM2INT(args[1])
         srid == NUM2INT(args[2])
         bufres == NUM2INT(args[3])
         called == [NoLast EXCEPT !.op = "create", !.alloc_ok = dataOk,
                                  !.context_ok = contextOk,
                                  !.frees = CreateFrees(dataOk, contextOk)]
     IN IF ~dataOk
        THEN \* result stays Qnil
             /\ last' = called
             /\ UNCHANGED <<factories, contexts, roots, createArgs>>
        ELSE IF ~contextOk
        THEN \* free(data), result stays Qnil
             /\ last' = called
             /\ UNCHANGED <<factories, contexts, roots, createArgs>>
        ELSE IF ~(flags.ok /\ srid.ok /\ bufres.ok)
        THEN \* NUM2INT raises: the context stays initialised and unowned
             /\ last' = [called EXCEPT !.raised = TRUE]
             /\ contexts' = [contexts EXCEPT ![f].state = "live"]
             /\ factories' = [factories EXCEPT ![f].state = "freed"]
             /\ UNCHANGED <<roots, createArgs>>
        ELSE /\ factories' = [factories EXCEPT ![f] =
                  [state |-> "alive", geos_context |-> f, flags |-> flags.int,
                   srid |-> srid.int, buffer_resolution |-> bufres.int,
                   wkt_reader |-> NULL, wkb_reader |-> NULL,
                   wkt_writer |-> NULL, wkb_writer |-> NULL]]
             /\ contexts' = [contexts EXCEPT ![f].state = "live"]
             /\ roots' = roots \cup {F(f)}
             /\ createArgs' = [createArgs EXCEPT ![f] = args]
             /\ last' = [called EXCEPT !.factory = f, !.result = f,
                                       !.registered = TRUE]
  /\ UNCHANGED <<wrappers, geoms, callerOwned, gc, faulted, eq>>

\* Mutant: the accessor reads the neighbouring field.
method_factory_srid_ReadsFlags(self) ==
  /\ Running
  /\ self \in HeldFactories
  /\ last' = [NoLast EXCEPT !.op = "srid", !.factory = self,
                            !.value = INT2NUM(factories[self].flags)]
  /\ UNCHANGED <<factories, wrappers, geoms, contexts, roots, callerOwned, gc,
                 createArgs, faulted, eq>>

\* method_factory_srid
method_factory_srid(self) ==
  /\ Running
  /\ self \in HeldFactories
  /\ last' = [NoLast EXCEPT !.op = "srid", !.factory = self,
                            !.value = INT2NUM(factories[self].srid)]
  /\ UNCHANGED <<factories, wrappers, geoms, contexts, roots, callerOwned, gc,
                 createArgs, faulted, eq>>

\* method_factory_buffer_resolution
method_factory_buffer_resolution(self) ==
  /\ Running
  /\ self \in HeldFactories
  /\ last' = [NoLast EXCEPT !.op = "buffer_resolution", !.factory = self,
                            !.value = INT2NUM(factories[self].buffer_resolution)]
  /\ UNCHANGED <<factories, wrappers, geoms, contexts, roots, callerOwned, gc,
                 createArgs, faulted, eq>>

\* method_factory_flags
method_factory_flags(self) ==
  /\ Running
  /\ self \in HeldFactories
  /\ last' = [NoLast EXCEPT !.op = "flags", !.factory = self,
                            !.value = INT2NUM(factories[self].flags)]
  /\ UNCHANGED <<factories, wrappers, geoms, contexts, roots, callerOwned, gc,
                 createArgs, faulted, eq>>

(* ----------------------------------------------------------------- wrap *)

\* rgeo_wrap_geos_geometry, as a function of the wrapper and geometry tables it
\* is called on. It reports the VALUE returned (result), the tables afterwards,
\* the engine / registry calls made, and a memory fault where the code
\* dereferences NULL (factory_data->globals or factory_data->srid with a nil
\* factory, GEOSGeomTypeId_r on a NULL geometry).
\* Mutant: the class is inferred whatever the hint.
NeedsInference_Always(klass) == TRUE

\* Mutant: the SRID the engine put on the geometry is kept.
WrappedSrid_Kept(factory_data, oldSrid) == oldSrid

\* `if (TYPE(klass) != T_CLASS)`: the class is inferred unless the hint is a class.
NeedsInference(klass) == TYPE(klass) # "class"

\* Mutant: the function proceeds whatever its arguments.
WrapsAtAll_Always(geom, klass) == TRUE

\* `if (geom || !NIL_P(klass))`: otherwise the result stays Qnil.
WrapsAtAll(geom, klass) == geom # NULL \/ ~NIL_P(klass)

\* `GEOSSetSRID_r(factory_context, geom, factory_data->srid)`: the SRID the
\* wrapped geometry ends with.
WrappedSrid(factory_data, oldSrid) == factories[factory_data].srid

rgeo_wrap_geos_geometry(ws, gs, factory, geom, klass, allocOk) ==
  LET none == [fault |-> FALSE, result |-> NIL, wrappers |-> ws, geoms |-> gs,
               kind_queried |-> FALSE, registry_read |-> FALSE, srid_set |-> FALSE,
               alloc_tried |-> FALSE]
      factory_data == IF factory = NIL THEN NULL ELSE factory
      factory_context == IF factory_data # NULL
                         THEN factories[factory_data].geos_context ELSE NULL
      infer == NeedsInference(klass)
      kind == IF geom # NULL THEN gs[geom].kind ELSE OtherKind
      inferred_klass == InferredKlass(kind)
      is_collection == IsCollectionKind(kind)
      klasses == IF infer /\ TYPE(klass) = "array" /\ is_collection THEN klass ELSE Qnil
      klass2 == IF infer THEN inferred_klass ELSE klass
      w == Min({x \in WrapperIds : ws[x].state = "unused"})
  IN IF ~WrapsAtAll(geom, klass) THEN none
     ELSE IF infer /\ factory_data = NULL
       THEN \* factory_data->globals reads through NULL
            [none EXCEPT !.fault = TRUE, !.registry_read = TRUE]
     ELSE IF infer /\ geom = NULL
       THEN \* GEOSGeomTypeId_r is given a NULL geometry
            [none EXCEPT !.fault = TRUE, !.registry_read = TRUE, !.kind_queried = TRUE]
     ELSE IF ~allocOk
       THEN [none EXCEPT !.kind_queried = infer, !.registry_read = infer,
                         !.alloc_tried = TRUE]
     ELSE IF geom # NULL /\ factory_data = NULL
       THEN \* factory_data->srid reads through NULL
            [none EXCEPT !.fault = TRUE, !.kind_queried = infer, !.registry_read = infer,
                         !.srid_set = TRUE, !.alloc_tried = TRUE]
     ELSE [fault |-> FALSE,
           result |-> w,
           wrappers |-> [ws EXCEPT ![w] =
              [state |-> "alive", klass |-> klass2, geom |-> geom,
               geos_context |-> factory_context, factory |-> factory,
               klasses |-> klasses]],
           geoms |-> IF geom # NULL
                     THEN [gs EXCEPT ![geom].srid = WrappedSrid(factory_data, @)]
                     ELSE gs,
           kind_queried |-> infer,
           registry_read |-> infer,
           srid_set |-> geom # NULL,
           alloc_tried |-> TRUE]


(* ---------------------------------------------------------------- parse *)

\* The common body of method_factory_parse_wkt / method_factory_parse_wkb on the
\* reader field `field`: create and cache the reader if the field is NULL, read,
\* and wrap what was read. createOk / readOk: whether GEOS*Reader_create_r /
\* GEOS*Reader_read_r return non-NULL; kind, srid0: the geometry the reader
\* builds; allocOk: whether ALLOC in rgeo_wrap_geos_geometry returns non-NULL.
\* Mutant: the read is attempted without checking the reader.
ShouldRead_Always(reader) == TRUE

\* `if (wkt_reader)`: the read is attempted only with a reader.
ShouldRead(reader) == reader # NULL

\* Mutant: a reader is created on every call.
NeedsReader_Always(cached) == TRUE

\* `if (!wkt_reader)`: a reader is created only when none is cached.
NeedsReader(cached) == cached = NULL

ParseWith(op, field, self, createOk, readOk, kind, srid0, allocOk) ==
  LET self_context == factories[self].geos_context
      cached == factories[self][field]
      creating == NeedsReader(cached)
      reader == IF ~creating THEN cached
                ELSE IF createOk THEN contexts[self_context].created[field] + 1
                ELSE NULL
      reading == ShouldRead(reader)
      noReader == reading /\ reader = NULL   \* a read through a NULL reader faults
      g == Min(UnusedGeoms)
      read == [geoms EXCEPT ![g] =
                 [state |-> "live", context |-> self_context, kind |-> kind,
                  srid |-> srid0, destroys |-> 0]]
      wrapped == rgeo_wrap_geos_geometry(wrappers, read, self, g, Qnil, allocOk)
      called == [NoLast EXCEPT !.op = op, !.factory = self,
                               !.reader_ok = reader # NULL,
                               !.read_ok = reading /\ readOk,
                               !.reused = ~creating]
  IN /\ Running
     /\ self \in HeldFactories
     /\ (reading /\ readOk /\ ~noReader) => (UnusedGeoms # {} /\ UnusedWrappers # {})
     /\ factories' = [factories EXCEPT ![self][field] = reader]
     /\ contexts' = IF creating /\ createOk
                    THEN [contexts EXCEPT ![self_context].created[field] = @ + 1]
                    ELSE contexts
     /\ IF noReader
        THEN /\ faulted' = TRUE
             /\ last' = called
             /\ UNCHANGED <<wrappers, geoms, roots>>
        ELSE IF reading /\ readOk
        THEN /\ wrappers' = wrapped.wrappers
             /\ geoms' = wrapped.geoms
             /\ faulted' = wrapped.fault
             /\ roots' = IF wrapped.result # NIL THEN roots \cup {W(wrapped.result)}
                         ELSE roots
             /\ last' = [called EXCEPT !.result = wrapped.result, !.in_geom = g,
                                       !.value = srid0,
                                       !.alloc_ok = wrapped.result # NIL,
                                       !.kind_queried = wrapped.kind_queried,
                                       !.registry_read = wrapped.registry_read,
                                       !.srid_set = wrapped.srid_set]
        ELSE /\ last' = called
             /\ UNCHANGED <<wrappers, geoms, faulted, roots>>
     /\ UNCHANGED <<callerOwned, gc, createArgs, eq>>

\* method_factory_parse_wkt
method_factory_parse_wkt(self, createOk, readOk, kind, srid0, allocOk) ==
  ParseWith("parse_wkt", "wkt_reader", self, createOk, readOk, kind, srid0, allocOk)

\* method_factory_parse_wkb
method_factory_parse_wkb(self, createOk, readOk, kind, srid0, allocOk) ==
  ParseWith("parse_wkb", "wkb_reader", self, createOk, readOk, kind, srid0, allocOk)

(* ------------------------------------------------------------ collector *)

\* Mutant: the factory is not marked.
mark_geometry_func_NoFactory(w) == {}

\* mark_geometry_func: what a marked wrapper marks in turn (its factory, when
\* not nil; its klasses are class objects, which are never collected).
mark_geometry_func(w) ==
  IF wrappers[w].factory # NIL THEN {F(wrappers[w].factory)} ELSE {}

AliveObjects ==
  {F(f) : f \in {x \in FactoryIds : factories[x].state = "alive"}}
    \cup {W(w) : w \in {x \in WrapperIds : wrappers[x].state = "alive"}}

\* The mark phase: the externally referenced objects and what their mark
\* functions reach (a factory has no mark function).
Marked ==
  (roots \cap AliveObjects)
    \cup UNION {mark_geometry_func(w) :
                  w \in {x \in WrapperIds : W(x) \in roots /\ wrappers[x].state = "alive"}}

\* A collection starts: everything alive and unmarked will be swept, in an
\* order the collector chooses.
GcStart ==
  /\ Running
  /\ AliveObjects \ Marked # {}
  /\ gc' = [phase |-> "sweep", marked |-> Marked, pending |-> AliveObjects \ Marked]
  /\ last' = [NoLast EXCEPT !.op = "gc_start"]
  /\ UNCHANGED <<factories, wrappers, geoms, contexts, roots, callerOwned,
                 createArgs, faulted, eq>>

GcAfter(obj) ==
  IF gc.pending = {obj} THEN GcIdle ELSE [gc EXCEPT !.pending = @ \ {obj}]

\* Mutant: GEOS*_destroy_r is called whether or not the field is NULL.
DestroyHelper_Unconditional(ctx, data, field) ==
  [ctx EXCEPT !.destroyed[field] = @ + 1, !.log = Append(@, field)]

\* One helper's destruction in destroy_factory_func: GEOS*_destroy_r is called
\* only for a non-NULL field. The context's log keeps the calls in order.
DestroyHelper(ctx, data, field) ==
  IF data[field] # NULL
  THEN [ctx EXCEPT !.destroyed[field] = @ + 1, !.log = Append(@, field)]
  ELSE ctx

\* finishGEOS_r(context)
FinishContext(ctx) ==
  [ctx EXCEPT !.state = "finished", !.finishes = @ + 1, !.log = Append(@, "finishGEOS_r")]

\* free(data)
FreeData(ctx) == [ctx EXCEPT !.log = Append(@, "free")]

\* Mutant: the context is finished before the helpers are destroyed.
destroy_factory_func_FinishFirst(f) ==
  /\ gc.phase = "sweep" /\ ~faulted
  /\ F(f) \in gc.pending
  /\ LET data == factories[f]
         context == data.geos_context
         c0 == FinishContext(contexts[context])
         c1 == DestroyHelper(c0, data, "wkt_reader")
         c2 == DestroyHelper(c1, data, "wkb_reader")
         c3 == DestroyHelper(c2, data, "wkt_writer")
         c4 == DestroyHelper(c3, data, "wkb_writer")
     IN /\ contexts' = [contexts EXCEPT ![context] = FreeData(c4)]
        /\ factories' = [factories EXCEPT ![f] = [NoFactory EXCEPT !.state = "freed"]]
  /\ gc' = GcAfter(F(f))
  /\ last' = [NoLast EXCEPT !.op = "destroy_factory", !.factory = f]
  /\ UNCHANGED <<wrappers, geoms, roots, callerOwned, createArgs, faulted, eq>>

\* destroy_factory_func, called by the sweep on an unmarked factory: destroy the
\* helpers present, finishGEOS_r, free(data).
destroy_factory_func(f) ==
  /\ gc.phase = "sweep" /\ ~faulted
  /\ F(f) \in gc.pending
  /\ LET data == factories[f]
         context == data.geos_context
         c1 == DestroyHelper(contexts[context], data, "wkt_reader")
         c2 == DestroyHelper(c1, data, "wkb_reader")
         c3 == DestroyHelper(c2, data, "wkt_writer")
         c4 == DestroyHelper(c3, data, "wkb_writer")
     IN /\ contexts' = [contexts EXCEPT ![context] = FreeData(FinishContext(c4))]
        /\ factories' = [factories EXCEPT ![f] = [NoFactory EXCEPT !.state = "freed"]]
  /\ gc' = GcAfter(F(f))
  /\ last' = [NoLast EXCEPT !.op = "destroy_factory", !.factory = f]
  /\ UNCHANGED <<wrappers, geoms, roots, callerOwned, createArgs, faulted, eq>>

\* GEOSGeom_destroy_r(context, geom). With a live context the geometry is
\* destroyed. With a context finishGEOS_r has already freed, the call reads
\* freed memory: the build may destroy the geometry, skip it, or fault.
GeomDestroyOutcomes(context) ==
  IF context # NULL /\ contexts[context].state = "live"
  THEN {"destroyed"}
  ELSE {"destroyed", "skipped", "fault"}

\* The destroyed geometry's memory is gone; only the number of times it was
\* destroyed is kept (observer).
DestroyGeom(gs, g) ==
  [gs EXCEPT ![g] = [NoGeom EXCEPT !.state = "destroyed",
                                   !.destroys = IF gs[g].destroys < 2
                                                THEN gs[g].destroys + 1 ELSE 2]]

\* destroy_geometry_func, called by the sweep on an unmarked wrapper: destroy
\* the geometry if the wrapper holds one, free(data).
destroy_geometry_func(w, outcome) ==
  /\ gc.phase = "sweep" /\ ~faulted
  /\ W(w) \in gc.pending
  /\ LET data == wrappers[w]
     IN IF data.geom # NULL
        THEN /\ outcome \in GeomDestroyOutcomes(data.geos_context)
             /\ geoms' = IF outcome = "destroyed" THEN DestroyGeom(geoms, data.geom)
                         ELSE geoms
             /\ faulted' = (outcome = "fault")
             /\ last' = [NoLast EXCEPT !.op = "destroy_geometry", !.obj = w,
                           !.in_geom = data.geom,
                           !.stale_context =
                              (data.geos_context = NULL
                               \/ contexts[data.geos_context].state # "live")]
        ELSE /\ outcome = "destroyed"
             /\ last' = [NoLast EXCEPT !.op = "destroy_geometry", !.obj = w]
             /\ UNCHANGED <<geoms, faulted>>
  /\ wrappers' = [wrappers EXCEPT ![w] = [NoWrapper EXCEPT !.state = "freed"]]
  /\ gc' = GcAfter(W(w))
  /\ UNCHANGED <<factories, contexts, roots, callerOwned, createArgs, eq>>

\* An external holder drops its reference to a managed object.
Release(obj) ==
  /\ Running
  /\ obj \in roots
  /\ roots' = roots \ {obj}
  /\ last' = [NoLast EXCEPT !.op = "release"]
  /\ UNCHANGED <<factories, wrappers, geoms, contexts, callerOwned, gc,
                 createArgs, faulted, eq>>


(* ------------------------------------------------ unwrap, detach, cast *)

\* rgeo_wrap_geos_geometry_clone: clone the geometry in the factory's context and
\* wrap the clone. cloneOk: whether GEOSGeom_clone_r returns non-NULL.
rgeo_wrap_geos_geometry_clone(ws, gs, factory, geom, klass, cloneOk, allocOk) ==
  LET none == [fault |-> FALSE, result |-> NIL, wrappers |-> ws, geoms |-> gs,
               kind_queried |-> FALSE, registry_read |-> FALSE, srid_set |-> FALSE,
               alloc_tried |-> FALSE]
      g == Min({x \in GeomIds : gs[x].state = "unused"})
      cloned == [gs EXCEPT ![g] =
                   [state |-> "live", context |-> factories[factory].geos_context,
                    kind |-> gs[geom].kind, srid |-> gs[geom].srid, destroys |-> 0]]
  IN IF geom # NULL /\ cloneOk
     THEN rgeo_wrap_geos_geometry(ws, cloned, factory, g, klass, allocOk)
     ELSE none

\* The class hints the cast collaborator may wrap a copy with: none, the source's
\* concrete class (keep_subtype), an array of member classes, or the source's own
\* member classes.
CastHints(obj) ==
  {Qnil, wrappers[obj].klass, ArrayHint}
    \cup (IF NIL_P(wrappers[obj].klasses) THEN {} ELSE {wrappers[obj].klasses})

\* Feature.cast(obj, factory, type[, :force_new, :keep_subtype]): yields nothing
\* ("nil"), the object itself when it already belongs to the factory and no new
\* copy is forced ("same"), or a new wrapper of the factory holding a copy of
\* the geometry ("copy").
Cast(obj, factory, type, forceNew, how, hint) ==
  LET none == [result |-> NIL, wrappers |-> wrappers, geoms |-> geoms, fault |-> FALSE]
      copy == rgeo_wrap_geos_geometry_clone(wrappers, geoms, factory,
                                            wrappers[obj].geom, hint, TRUE, TRUE)
  IN CASE how = "same" /\ ~forceNew /\ wrappers[obj].factory = factory ->
            [none EXCEPT !.result = obj]
       [] how = "copy" /\ wrappers[obj].geom # NULL ->
            [result |-> copy.result, wrappers |-> copy.wrappers,
             geoms |-> copy.geoms, fault |-> copy.fault]
       [] OTHER -> none

CastHows == {"nil", "same", "copy"}

\* A copy needs a free wrapper and a free geometry slot.
CastBound(obj, how) ==
  (how = "copy" /\ wrappers[obj].geom # NULL)
    => (UnusedWrappers # {} /\ UnusedGeoms # {})

\* rgeo_convert_to_geos_geometry: the borrowed handle of obj, or of what the cast
\* collaborator makes of it.
\* Mutant: the type constraint is ignored.
BelongsDirectly_IgnoresType(factory, obj, type) ==
  wrappers[obj].factory = factory

\* `NIL_P(type) && RGEO_GEOMETRY_DATA_PTR(obj)->factory == factory`
BelongsDirectly(factory, obj, type) ==
  NIL_P(type) /\ wrappers[obj].factory = factory

rgeo_convert_to_geos_geometry(factory, obj, type, how, hint) ==
  LET direct == BelongsDirectly(factory, obj, type)
      cast == Cast(obj, factory, type, FALSE, how, hint)
      object == IF direct THEN obj ELSE cast.result
      ws == IF direct THEN wrappers ELSE cast.wrappers
      geom == IF object # NIL THEN ws[object].geom ELSE NULL
  IN /\ Running
     /\ factory \in HeldFactories
     /\ obj \in HeldWrappers
     /\ hint \in CastHints(obj)
     /\ ~direct => CastBound(obj, how)
     /\ wrappers' = ws
     /\ geoms' = IF direct THEN geoms ELSE cast.geoms
     /\ faulted' = (~direct /\ cast.fault)
     /\ last' = [NoLast EXCEPT !.op = "unwrap", !.factory = factory, !.obj = obj,
                               !.type = type, !.result = object, !.geom = geom,
                               !.cast_called = ~direct]
     /\ UNCHANGED <<factories, contexts, roots, callerOwned, gc, createArgs, eq>>

\* rgeo_convert_to_detached_geos_geometry: cast with force_new / keep_subtype,
\* then move the handle and the klasses out of the cast result and empty it.
\* wantKlasses: whether the klasses out-pointer is non-NULL.
\* Mutant: the handle is handed out but also left in the wrapper.
DetachData_KeepsGeom(object_data) ==
  [object_data EXCEPT !.geos_context = NULL, !.factory = NIL, !.klasses = Qnil]

\* Mutant: the factory reference and the context are left in the wrapper.
DetachData_KeepsFactory(object_data) ==
  [object_data EXCEPT !.geom = NULL, !.klasses = Qnil]

\* The four assignments that empty the cast result.
DetachData(object_data) ==
  [object_data EXCEPT !.geom = NULL, !.geos_context = NULL, !.factory = NIL,
                      !.klasses = Qnil]

\* Mutant: no fallback to the class of the object.
ReportedKlasses_NoFallback(object_data) == object_data.klasses

\* `*klasses = object_data->klasses; if (NIL_P(*klasses)) *klasses = CLASS_OF(object);`
ReportedKlasses(object_data) ==
  IF NIL_P(object_data.klasses) THEN object_data.klass ELSE object_data.klasses

rgeo_convert_to_detached_geos_geometry(obj, factory, type, wantKlasses, how, hint) ==
  LET cast == Cast(obj, factory, type, TRUE, how, hint)
      object == cast.result
      object_data == cast.wrappers[object]
      geom == IF object # NIL THEN object_data.geom ELSE NULL
      klasses == IF object # NIL /\ wantKlasses
                 THEN ReportedKlasses(object_data)
                 ELSE Qnil
  IN /\ Running
     /\ factory \in HeldFactories
     /\ obj \in HeldWrappers
     /\ hint \in CastHints(obj)
     /\ CastBound(obj, how)
     /\ wrappers' = IF object # NIL
                    THEN [cast.wrappers EXCEPT ![object] = DetachData(object_data)]
                    ELSE cast.wrappers
     /\ geoms' = cast.geoms
     /\ faulted' = cast.fault
     /\ callerOwned' = IF geom # NULL THEN callerOwned \cup {geom} ELSE callerOwned
     /\ last' = [NoLast EXCEPT !.op = "detach", !.factory = factory, !.obj = obj,
                               !.type = type, !.result = object,
                               !.in_geom = IF object # NIL THEN object_data.geom ELSE NULL,
                               !.geom = geom, !.klasses = klasses,
                               !.hint = IF object # NIL THEN object_data.klasses ELSE Qnil,
                               !.cast_called = TRUE, !.want_klasses = wantKlasses]
     /\ UNCHANGED <<factories, contexts, roots, gc, createArgs, eq>>

\* rgeo_is_geos_object: the object is T_DATA with destroy_geometry_func as dfree.
rgeo_is_geos_object(o) == o[1] = "W"

\* rgeo_get_geos_geometry_safe: the handle of a geometry wrapper, NULL for any
\* other object.
rgeo_get_geos_geometry_safe(o) ==
  IF rgeo_is_geos_object(o) THEN wrappers[o[2]].geom ELSE NULL

\* A caller reads the handle of an object it holds through the safe accessor.
GetGeomSafe(o) ==
  /\ Running
  /\ o \in roots
  /\ last' = [NoLast EXCEPT !.op = "get_safe",
                            !.obj = IF rgeo_is_geos_object(o) THEN o[2] ELSE NIL,
                            !.factory = IF rgeo_is_geos_object(o) THEN NIL ELSE o[2],
                            !.geom = rgeo_get_geos_geometry_safe(o)]
  /\ UNCHANGED <<factories, wrappers, geoms, contexts, roots, callerOwned, gc,
                 createArgs, faulted, eq>>

(* ------------------------------------------------------------- callers *)

\* A C caller wraps a handle it owns (or NULL) with rgeo_wrap_geos_geometry and
\* returns the wrapper to managed code. A non-NULL handle is wrapped with the
\* factory of the context it was made in.
WrapCall(factory, geom, klass, allocOk) ==
  LET wrapped == rgeo_wrap_geos_geometry(wrappers, geoms, factory, geom, klass, allocOk)
  IN /\ Running
     /\ factory \in HeldFactories \cup {NIL}
     /\ geom \in callerOwned \cup {NULL}
     /\ (geom # NULL /\ factory # NIL) =>
           geoms[geom].context = factories[factory].geos_context
     /\ UnusedWrappers # {}
     /\ wrappers' = wrapped.wrappers
     /\ geoms' = wrapped.geoms
     /\ faulted' = wrapped.fault
     /\ roots' = IF wrapped.result # NIL THEN roots \cup {W(wrapped.result)} ELSE roots
     /\ callerOwned' = IF wrapped.result # NIL THEN callerOwned \ {geom} ELSE callerOwned
     /\ last' = [NoLast EXCEPT !.op = "wrap", !.factory = factory, !.in_geom = geom,
                               !.hint = klass, !.result = wrapped.result,
                               !.alloc_ok = ~wrapped.alloc_tried \/ allocOk,
                               !.kind_queried = wrapped.kind_queried,
                               !.registry_read = wrapped.registry_read,
                               !.srid_set = wrapped.srid_set]
     /\ UNCHANGED <<factories, contexts, gc, createArgs, eq>>

\* A serialisation method of a geometry of factory self creates the factory's
\* WKT or WKB writer on first use and keeps it in the factory for later calls.
\* createOk: whether GEOS*Writer_create_r returns non-NULL.
EnsureWriter(self, field, createOk) ==
  LET self_context == factories[self].geos_context
      creating == factories[self][field] = NULL
      writer == IF ~creating THEN factories[self][field]
                ELSE IF createOk THEN contexts[self_context].created[field] + 1
                ELSE NULL
  IN /\ Running
     /\ self \in HeldFactories
     /\ field \in {"wkt_writer", "wkb_writer"}
     /\ factories' = [factories EXCEPT ![self][field] = writer]
     /\ contexts' = IF creating /\ createOk
                    THEN [contexts EXCEPT ![self_context].created[field] = @ + 1]
                    ELSE contexts
     /\ last' = [NoLast EXCEPT !.op = field, !.factory = self,
                               !.reader_ok = writer # NULL, !.reused = ~creating]
     /\ UNCHANGED <<wrappers, geoms, roots, callerOwned, gc, createArgs, faulted, eq>>

\* A C caller obtains a new geometry of some kind from the engine, in the
\* context of a factory, and owns it.
EngineMake(factory, kind) ==
  /\ Running
  /\ factory \in HeldFactories
  /\ UnusedGeoms # {}
  /\ LET g == Min(UnusedGeoms)
     IN /\ geoms' = [geoms EXCEPT ![g] =
                       [state |-> "live", context |-> factories[factory].geos_context,
                        kind |-> kind, srid |-> 0, destroys |-> 0]]
        /\ callerOwned' = callerOwned \cup {g}
        /\ last' = [NoLast EXCEPT !.op = "engine_make", !.factory = factory, !.geom = g]
  /\ UNCHANGED <<factories, wrappers, contexts, roots, gc, createArgs, faulted, eq>>

\* A C caller destroys a handle it owns, in the handle's context, while that
\* context is live.
CallerDestroy(g) ==
  /\ Running
  /\ g \in callerOwned
  /\ contexts[geoms[g].context].state = "live"
  /\ geoms' = DestroyGeom(geoms, g)
  /\ callerOwned' = callerOwned \ {g}
  /\ last' = [NoLast EXCEPT !.op = "caller_destroy", !.in_geom = g]
  /\ UNCHANGED <<factories, wrappers, contexts, roots, gc, createArgs, faulted, eq>>


(* ------------------------------------------------- coordinate equality *)

\* Doubles read from coordinate sequences. NaN is what the engine stores as
\* the Z of a two-dimensional coordinate; C's == is false on it.
NaN == "NaN"
DoubleEq(a, b) == a # NaN /\ b # NaN /\ a = b

\* Coordinates (x, y, z) the model draws.
Points ==
  {<<"0", "0", "0">>, <<"1", "0", "0">>, <<"0", "1", "0">>, <<"0", "0", "1">>,
   <<"0", "0", NaN>>}

Qtrue == "true"
Qfalse == "false"
QnilResult == "nil"

RECURSIVE SeqsUpTo(_)
SeqsUpTo(n) ==
  IF n = 0 THEN {<<>>}
  ELSE LET shorter == SeqsUpTo(n - 1)
       IN shorter \cup {Append(q, pt) : q \in {r \in shorter : Len(r) = n - 1}, pt \in Points}

Components == {"X", "Y", "Z"}

\* A native geometry as rgeo_geos_coordseqs_eql sees it: the NULL pointer, a
\* geometry without a coordinate sequence, one whose size cannot be read, or
\* one with coordinates, of which at most one read (index, component) fails.
NullGeom == [null |-> TRUE, has_cs |-> FALSE, size_ok |-> FALSE, coords |-> <<>>, bad |-> {}]
EqGeoms ==
  {NullGeom,
   [NullGeom EXCEPT !.null = FALSE],
   [NullGeom EXCEPT !.null = FALSE, !.has_cs = TRUE]}
    \cup UNION {{[null |-> FALSE, has_cs |-> TRUE, size_ok |-> TRUE, coords |-> cs,
                   bad |-> b] :
                     b \in {{}} \cup {{<<i, c>>} : i \in 1..Len(cs), c \in Components}} :
                  cs \in SeqsUpTo(MaxLen)}

\* Mutant: the return code of the read is ignored.
GetOk_Ignored(g, i, c) == TRUE

\* Mutant: every read calls getX_r, whatever component is wanted.
GetVal_AlwaysX(g, i, c) == g.coords[i + 1][1]

\* GEOSCoordSeq_getX_r / getY_r / getZ_r at (0-based) index i: whether it
\* succeeds, and the value read.
GetOk(g, i, c) == <<i + 1, c>> \notin g.bad
GetVal(g, i, c) ==
  g.coords[i + 1][CASE c = "X" -> 1 [] c = "Y" -> 2 [] OTHER -> 3]

\* The for loop of rgeo_geos_coordseqs_eql from index i on, result being Qtrue
\* so far.
RECURSIVE EqlLoop(_, _, _, _, _)
EqlLoop(g1, g2, len1, check_z, i) ==
  IF ~(i < len1) THEN Qtrue
  ELSE IF ~(GetOk(g1, i, "X") /\ GetOk(g2, i, "X")) THEN QnilResult
  ELSE IF ~DoubleEq(GetVal(g1, i, "X"), GetVal(g2, i, "X")) THEN Qfalse
  ELSE IF ~(GetOk(g1, i, "Y") /\ GetOk(g2, i, "Y")) THEN QnilResult
  ELSE IF ~DoubleEq(GetVal(g1, i, "Y"), GetVal(g2, i, "Y")) THEN Qfalse
  ELSE IF ~check_z THEN EqlLoop(g1, g2, len1, check_z, i + 1)
  ELSE IF ~GetOk(g1, i, "Z") THEN QnilResult
  ELSE IF ~GetOk(g2, i, "Z") THEN QnilResult
  ELSE IF ~DoubleEq(GetVal(g1, i, "Z"), GetVal(g2, i, "Z")) THEN Qfalse
  ELSE EqlLoop(g1, g2, len1, check_z, i + 1)

\* Mutant: only the size read of the first sequence is checked.
rgeo_geos_coordseqs_eql_OneSize(geom1, geom2, check_z) ==
  IF ~(~geom1.null /\ ~geom2.null) THEN QnilResult
  ELSE IF ~(geom1.has_cs /\ geom2.has_cs) THEN QnilResult
  ELSE IF ~geom1.size_ok THEN QnilResult
  ELSE IF Len(geom1.coords) = Len(geom2.coords)
       THEN EqlLoop(geom1, geom2, Len(geom1.coords), check_z, 0)
       ELSE Qfalse

\* rgeo_geos_coordseqs_eql
rgeo_geos_coordseqs_eql(geom1, geom2, check_z) ==
  IF ~(~geom1.null /\ ~geom2.null) THEN QnilResult
  ELSE IF ~(geom1.has_cs /\ geom2.has_cs) THEN QnilResult
  ELSE IF ~(geom1.size_ok /\ geom2.size_ok) THEN QnilResult
  ELSE IF Len(geom1.coords) = Len(geom2.coords)
       THEN EqlLoop(geom1, geom2, Len(geom1.coords), check_z, 0)
       ELSE Qfalse

\* A caller compares two geometries.
CoordSeqsEql(geom1, geom2, check_z) ==
  /\ ~eq.called
  /\ eq' = [called |-> TRUE, geom1 |-> geom1, geom2 |-> geom2, check_z |-> check_z,
            result |-> rgeo_geos_coordseqs_eql(geom1, geom2, check_z)]
  /\ UNCHANGED lifeVars

(* -------------------------------------------------------- specification *)

\* What the cast collaborator may do with w for factory f: how, and with which
\* class hint for a copy. When cast is not called there is nothing to choose.
CastChoices(f, w, t, forceNew) ==
  IF ~forceNew /\ NIL_P(t) /\ wrappers[w].factory = f
  THEN {<<"nil", Qnil>>}
  ELSE {<<"nil", Qnil>>}
         \cup (IF ~forceNew /\ wrappers[w].factory = f THEN {<<"same", Qnil>>} ELSE {})
         \cup (IF wrappers[w].geom # NULL
               THEN {<<"copy", h>> : h \in CastHints(w)} ELSE {})

\* The calls of the wrap / unwrap / detach protocol made by sibling C code.
Protocol(kinds) ==
  \/ \E f \in HeldFactories : method_factory_parse_wkt(f, TRUE, FALSE, GEOS_POINT, 0, TRUE)
  \/ \E f \in HeldFactories, kind \in kinds, srid0 \in ParsedSrids :
        method_factory_parse_wkt(f, TRUE, TRUE, kind, srid0, TRUE)
  \/ \E f \in HeldFactories \cup {NIL}, g \in callerOwned \cup {NULL}, k \in KlassHints :
        WrapCall(f, g, k, TRUE)
  \/ \E f \in HeldFactories, w \in HeldWrappers, t \in TypeArgs :
        \E c \in CastChoices(f, w, t, FALSE) :
           rgeo_convert_to_geos_geometry(f, w, t, c[1], c[2])
  \/ \E f \in HeldFactories, w \in HeldWrappers, wantKlasses \in BOOLEAN :
        \E c \in CastChoices(f, w, Qnil, TRUE) :
           rgeo_convert_to_detached_geos_geometry(w, f, Qnil, wantKlasses, c[1], c[2])
  \/ \E g \in callerOwned : CallerDestroy(g)

\* The collector: references are dropped, a collection starts, the sweep calls
\* the destroy functions of the unmarked objects in any order.
Collector ==
  \/ \E o \in roots : Release(o)
  \/ GcStart
  \/ \E f \in FactoryIds : destroy_factory_func(f)
  \/ \E w \in WrapperIds, outcome \in {"destroyed", "skipped", "fault"} :
        destroy_geometry_func(w, outcome)

GeomsMade == Cardinality(GeomIds \ UnusedGeoms)
FactoriesMade == Cardinality(FactoryIds \ UnusedFactories)
WrappersMade == Cardinality(WrapperIds \ UnusedWrappers)
ArgsOf(n) == IF n = 1 THEN <<0, 4326, 1>> ELSE IF n = 2 THEN <<3, 0, 8>> ELSE <<1, 31370, 16>>

\* Lifecycle: factories, wrappers and native handles under the collector.
Next ==
  \/ FactoriesMade < MaxLifeFactories /\ cmethod_factory_create(<<0, 4326, 1>>, TRUE, TRUE)
  \/ Protocol({GEOS_GEOMETRYCOLLECTION})
  \/ Collector

Spec == Init /\ [][Next]_vars

\* The protocol alone, with factories of different SRIDs and geometries of
\* different kinds, and no collection.
NextProtocol ==
  \/ cmethod_factory_create(ArgsOf(FactoriesMade + 1), TRUE, TRUE)
  \/ Protocol({GEOS_GEOMETRYCOLLECTION})
  \/ \E o \in roots : GetGeomSafe(o)

SpecProtocol == Init /\ [][NextProtocol]_vars

\* The factory alone: creation, accessors and both parsers with every failure,
\* under the collector.
NextFactory ==
  \/ \E args \in CreateArgs, dataOk, contextOk \in BOOLEAN :
        FactoriesMade < MaxLifeFactories /\ cmethod_factory_create(args, dataOk, contextOk)
  \/ \E f \in HeldFactories : method_factory_srid(f)
  \/ \E f \in HeldFactories : method_factory_buffer_resolution(f)
  \/ \E f \in HeldFactories : method_factory_flags(f)
  \/ \E f \in HeldFactories, createOk \in BOOLEAN :
        method_factory_parse_wkt(f, createOk, FALSE, GEOS_POINT, 0, TRUE)
  \/ \E f \in HeldFactories, allocOk \in BOOLEAN, srid0 \in ParsedSrids :
        /\ GeomsMade < MaxParsed
        /\ method_factory_parse_wkt(f, TRUE, TRUE, GEOS_POINT, srid0, allocOk)
  \/ \E f \in HeldFactories, createOk \in BOOLEAN :
        method_factory_parse_wkb(f, createOk, FALSE, GEOS_POINT, 0, TRUE)
  \/ \E f \in HeldFactories, allocOk \in BOOLEAN, srid0 \in ParsedSrids :
        /\ GeomsMade < MaxParsed
        /\ method_factory_parse_wkb(f, TRUE, TRUE, GEOS_POINT, srid0, allocOk)
  \/ Collector

SpecFactory == Init /\ [][NextFactory]_vars

\* The helper handles of factories: readers and writers created lazily, with
\* failures, then the factories dropped and swept.
NextHelpers ==
  \/ cmethod_factory_create(ArgsOf(FactoriesMade + 1), TRUE, TRUE)
  \/ \E f \in HeldFactories, createOk \in BOOLEAN :
        method_factory_parse_wkt(f, createOk, FALSE, GEOS_POINT, 0, TRUE)
  \/ \E f \in HeldFactories, createOk \in BOOLEAN :
        method_factory_parse_wkb(f, createOk, FALSE, GEOS_POINT, 0, TRUE)
  \/ \E f \in HeldFactories, createOk \in BOOLEAN : EnsureWriter(f, "wkt_writer", createOk)
  \/ \E f \in HeldFactories, createOk \in BOOLEAN : EnsureWriter(f, "wkb_writer", createOk)
  \/ \E f \in HeldFactories : Release(F(f))
  \/ GcStart
  \/ \E f \in FactoryIds : destroy_factory_func(f)

SpecHelpers == Init /\ [][NextHelpers]_vars

\* Wrap alone: geometries of every kind, every class hint, a present or absent
\* factory, a NULL or non-NULL handle, with allocation failures.
NextWrap ==
  \/ FactoriesMade < MaxLifeFactories
        /\ cmethod_factory_create(ArgsOf(FactoriesMade + 1), TRUE, TRUE)
  \/ \E f \in HeldFactories, kind \in Kinds :
        GeomsMade < MaxParsed /\ EngineMake(f, kind)
  \/ \E f \in HeldFactories \cup {NIL}, g \in callerOwned \cup {NULL}, k \in KlassHints,
        allocOk \in BOOLEAN :
        WrappersMade < MaxParsed /\ WrapCall(f, g, k, allocOk)

SpecWrap == Init /\ [][NextWrap]_vars

\* The comparison alone, on every pair of geometries the model draws.
NextEql ==
  /\ ~eq.called
  /\ \E geom1 \in EqGeoms, geom2 \in EqGeoms, check_z \in BOOLEAN :
        CoordSeqsEql(geom1, geom2, check_z)

SpecEql == Init /\ [][NextEql]_vars

(* --------------------------------------------------------------- claims *)

AliveWrappers == {w \in WrapperIds : wrappers[w].state = "alive"}
Owners(g) == {w \in AliveWrappers : wrappers[w].geom = g}

\* C1: no native geometry handle is destroyed more than once. A handle held
\* by a wrapper is live and held by that wrapper alone; a handle moved out by
\* Detach is live, held by no wrapper, and so left for the caller to destroy
\* exactly once.
C1_DestroyedAtMostOnce ==
  /\ \A g \in GeomIds : geoms[g].destroys <= 1
  /\ \A w \in AliveWrappers :
        wrappers[w].geom # NULL =>
          /\ geoms[wrappers[w].geom].state = "live"
          /\ Owners(wrappers[w].geom) = {w}
          /\ wrappers[w].geom \notin callerOwned
  /\ \A g \in callerOwned : geoms[g].state = "live" /\ Owners(g) = {}

\* C1 witness: every wrapper has been swept, among them the one Detach emptied,
\* every handle made has been destroyed exactly once, and the last of them was
\* destroyed by the caller that received it from Detach.
C1_Witness ==
  /\ last.op = "caller_destroy"
  /\ \A w \in WrapperIds : wrappers[w].state = "freed"
  /\ \A g \in GeomIds : geoms[g].state = "destroyed" /\ geoms[g].destroys = 1

\* C2: destroy_geometry_func never destroys a native handle through a context
\* that destroy_factory_func has already finished.
C2_NoDestroyThroughFinishedContext ==
  (last.op = "destroy_geometry" /\ last.in_geom # NULL) => ~last.stale_context

\* C3: a factory referenced by a reachable wrapper is alive, and during a
\* collection a factory is marked only because an external holder or a
\* reachable wrapper with a non-nil factory reference refers to it (a wrapper
\* whose factory reference is nil keeps no factory alive).
C3_FactoryOutlivesReachableWrappers ==
  /\ \A w \in AliveWrappers :
        (W(w) \in roots /\ wrappers[w].factory # NIL) =>
           factories[wrappers[w].factory].state = "alive"
  /\ gc.phase = "sweep" =>
       \A f \in FactoryIds :
          F(f) \in gc.marked =>
             \/ F(f) \in roots
             \/ \E w \in AliveWrappers : W(w) \in roots /\ wrappers[w].factory = f

\* C3 witness: a collection is sweeping, and a factory nobody holds any more
\* was marked, and is alive, because a reachable wrapper references it.
C3_Witness ==
  /\ gc.phase = "sweep"
  /\ \E w \in AliveWrappers :
        /\ W(w) \in roots
        /\ wrappers[w].factory # NIL
        /\ F(wrappers[w].factory) \notin roots
        /\ F(wrappers[w].factory) \in gc.marked
        /\ factories[wrappers[w].factory].state = "alive"

\* C4: after a Detach whose cast yielded a wrapper, that wrapper is empty
\* (handle NULL, context NULL, factory nil, klasses nil), the handle returned is
\* the one the wrapper held, the caller owns it, and the safe accessor reads
\* NULL from the wrapper; the safe accessor never returns a handle that has
\* been moved out or destroyed.
C4_DetachEmptiesWrapper ==
  /\ (last.op = "detach" /\ last.result # NIL) =>
        /\ wrappers[last.result].state = "alive"
        /\ wrappers[last.result].geom = NULL
        /\ wrappers[last.result].geos_context = NULL
        /\ wrappers[last.result].factory = NIL
        /\ NIL_P(wrappers[last.result].klasses)
        /\ last.geom = last.in_geom
        /\ last.geom # NULL => last.geom \in callerOwned
        /\ rgeo_get_geos_geometry_safe(W(last.result)) = NULL
  /\ (last.op = "get_safe" /\ last.geom # NULL) =>
        /\ geoms[last.geom].state = "live"
        /\ last.geom \notin callerOwned

\* C4 witness: a Detach has just moved a handle and member classes out of the
\* wrapper the cast produced.
C4_Witness ==
  /\ last.op = "detach"
  /\ last.result # NIL
  /\ last.geom # NULL
  /\ ~NIL_P(last.hint)
  /\ last.geom \in callerOwned

\* C5: a parse step in which the reader could not be created or the engine
\* rejected the input returns nil without raising or faulting, creates no
\* wrapper and no native geometry, and leaves the factory alive with a live
\* context and an unchanged configuration.
C5_FailedParseStep ==
  (/\ last'.op \in {"parse_wkt", "parse_wkb"}
   /\ ~(last'.reader_ok /\ last'.read_ok))
  => /\ last'.result = NIL
     /\ ~last'.raised
     /\ ~faulted'
     /\ wrappers' = wrappers
     /\ geoms' = geoms
     /\ roots' = roots
     /\ callerOwned' = callerOwned
     /\ last'.factory \in FactoryIds
     /\ factories'[last'.factory].state = "alive"
     /\ contexts'[factories'[last'.factory].geos_context].state = "live"
     /\ F(last'.factory) \in roots'
     /\ factories'[last'.factory].srid = factories[last'.factory].srid
     /\ factories'[last'.factory].flags = factories[last'.factory].flags
     /\ factories'[last'.factory].geos_context = factories[last'.factory].geos_context

C5_FailedParseReturnsNil == [][C5_FailedParseStep]_vars

\* C5 witness: parseWkb has just failed because its reader could not be
\* created, on a factory whose WKT reader was created earlier.
C5_Witness ==
  /\ last.op = "parse_wkb"
  /\ ~last.reader_ok
  /\ last.result = NIL
  /\ factories[last.factory].wkt_reader # NULL
  /\ factories[last.factory].wkb_reader = NULL

\* C6: an alive factory stores exactly the arguments it was created with, in
\* every step of its life; srid(), bufferResolution() and flags() return those
\* arguments and change nothing.
C6_AccessorStep ==
  /\ \A f \in FactoryIds :
        factories'[f].state = "alive" =>
          /\ <<factories'[f].flags, factories'[f].srid,
               factories'[f].buffer_resolution>> = createArgs'[f]
          /\ factories[f].state = "alive" => createArgs'[f] = createArgs[f]
  /\ last'.op = "srid" => last'.value = createArgs'[last'.factory][2]
  /\ last'.op = "buffer_resolution" => last'.value = createArgs'[last'.factory][3]
  /\ last'.op = "flags" => last'.value = createArgs'[last'.factory][1]
  /\ last'.op \in {"srid", "buffer_resolution", "flags"} =>
        UNCHANGED <<factories, wrappers, geoms, contexts, roots, callerOwned, gc,
                    createArgs, faulted>>

C6_AccessorsReturnCreateArgs == [][C6_AccessorStep]_vars

\* C6 witness: srid() has just returned the smallest int, the SRID the factory
\* was created with, after a parse call on that factory created its reader.
C6_Witness ==
  /\ last.op = "srid"
  /\ last.value = IntMin
  /\ createArgs[last.factory] = <<3, IntMin, 8>>
  /\ factories[last.factory].wkt_reader # NULL

\* C7: Wrap with a NULL handle and a class as hint returns (storage allocated)
\* a wrapper of that class with an empty handle, and makes no kind query, no
\* registry read and no SRID assignment.
C7_NullHandleWithClassHint ==
  (/\ last.op = "wrap"
   /\ last.in_geom = NULL
   /\ TYPE(last.hint) = "class"
   /\ last.alloc_ok)
  => /\ last.result # NIL
     /\ ~faulted
     /\ wrappers[last.result].state = "alive"
     /\ wrappers[last.result].klass = last.hint
     /\ wrappers[last.result].geom = NULL
     /\ NIL_P(wrappers[last.result].klasses)
     /\ ~last.kind_queried
     /\ ~last.registry_read
     /\ ~last.srid_set

\* C7 witness: such a Wrap call has just returned its wrapper.
C7_Witness ==
  /\ last.op = "wrap"
  /\ last.in_geom = NULL
  /\ last.hint = Class("Point")
  /\ last.result # NIL
  /\ wrappers[last.result].klass = Class("Point")

\* C8: every wrapper that holds a handle and still references its factory
\* holds a live handle whose SRID is that factory's SRID, and the wrapper's
\* context is that factory's context.
C8_WrappedSridIsFactorySrid ==
  \A w \in AliveWrappers :
     wrappers[w].geom # NULL =>
        /\ wrappers[w].factory # NIL
        /\ factories[wrappers[w].factory].state = "alive" =>
              /\ geoms[wrappers[w].geom].srid = factories[wrappers[w].factory].srid
              /\ wrappers[w].geos_context = factories[wrappers[w].factory].geos_context
              /\ geoms[wrappers[w].geom].context = wrappers[w].geos_context

\* C8 witness: a parse has just wrapped a geometry on which the reader had put
\* an SRID other than the factory's.
C8_Witness ==
  /\ last.op = "parse_wkt"
  /\ last.result # NIL
  /\ last.srid_set
  /\ last.value # factories[last.factory].srid
  /\ geoms[wrappers[last.result].geom].srid = factories[last.factory].srid

\* C9: Unwrap calls cast exactly when the type is given or the input's factory
\* is not the given one; without cast it returns the input's own handle, with
\* cast the handle of the cast result, or NULL when cast yields nothing; the
\* wrapper it read the handle from still holds it afterwards.
C9_UnwrapBorrows ==
  last.op = "unwrap" =>
    /\ last.cast_called <=>
         ~(NIL_P(last.type) /\ wrappers[last.obj].factory = last.factory)
    /\ ~last.cast_called =>
         /\ last.result = last.obj
         /\ last.geom = wrappers[last.obj].geom
    /\ (last.cast_called /\ last.result = NIL) => last.geom = NULL
    /\ (last.cast_called /\ last.result # NIL) =>
         last.geom = wrappers[last.result].geom
    /\ last.geom # NULL =>
         /\ geoms[last.geom].state = "live"
         /\ last.geom \notin callerOwned
         /\ Owners(last.geom) = {last.result}

\* C9 witness: Unwrap of a wrapper of another factory has just returned the
\* handle of the copy that cast made.
C9_Witness ==
  /\ last.op = "unwrap"
  /\ NIL_P(last.type)
  /\ wrappers[last.obj].factory \notin {NIL, last.factory}
  /\ last.cast_called
  /\ last.result \notin {NIL, last.obj}
  /\ last.geom # NULL

CompIdx(c) == CASE c = "X" -> 1 [] c = "Y" -> 2 [] OTHER -> 3

\* The reads the comparison would make with these arguments if nothing stopped
\* it: X and Y, and Z when check_z, at every index of the sequence.
ReadsOf(g, check_z) ==
  {<<i, c>> : i \in 1..Len(g.coords), c \in IF check_z THEN Components ELSE {"X", "Y"}}

\* A read of g that fails and that the comparison would make.
FailingReads(g, check_z) == g.bad \cap ReadsOf(g, check_z)

\* Every component the loop compares before read r is equal in both sequences.
EqualBefore(g1, g2, check_z, r) ==
  \A q \in ReadsOf(g1, check_z) :
     (q[1] < r[1] \/ (q[1] = r[1] /\ CompIdx(q[2]) < CompIdx(r[2]))) =>
        DoubleEq(g1.coords[q[1]][CompIdx(q[2])], g2.coords[q[1]][CompIdx(q[2])])

Unreadable(g) == g.null \/ ~g.has_cs \/ ~g.size_ok

\* C10 as stated: the result is nil whenever a geometry is NULL or has no
\* coordinate sequence, a size read fails, or a coordinate read (X, Y, or Z
\* when check_z) fails at any index of either sequence.
C10_NilOnAnyFailingRead ==
  (/\ eq.called
   /\ \/ Unreadable(eq.geom1)
      \/ Unreadable(eq.geom2)
      \/ FailingReads(eq.geom1, eq.check_z) # {}
      \/ FailingReads(eq.geom2, eq.check_z) # {})
  => eq.result = QnilResult

\* C10 amended: the result is nil whenever a geometry is NULL or has no
\* coordinate sequence, a size read fails, or the sequences have the same
\* length and a coordinate read fails before which every compared component
\* is equal (so that the loop reaches it).
C10_NilOnReachedFailingRead ==
  (/\ eq.called
   /\ \/ Unreadable(eq.geom1)
      \/ Unreadable(eq.geom2)
      \/ /\ Len(eq.geom1.coords) = Len(eq.geom2.coords)
         /\ \E r \in FailingReads(eq.geom1, eq.check_z)
                       \cup FailingReads(eq.geom2, eq.check_z) :
               EqualBefore(eq.geom1, eq.geom2, eq.check_z, r))
  => eq.result = QnilResult

\* C10 witness: two sequences of the same length, equal up to the Z of their
\* last coordinate, whose read fails on the second geometry: the result is nil.
C10_Witness ==
  /\ eq.called
  /\ eq.check_z
  /\ ~Unreadable(eq.geom1) /\ ~Unreadable(eq.geom2)
  /\ Len(eq.geom1.coords) = MaxLen
  /\ eq.geom1.coords = eq.geom2.coords
  /\ eq.geom1.bad = {}
  /\ eq.geom2.bad = {<<MaxLen, "Z">>}
  /\ eq.result = QnilResult

\* Read r succeeds on both sequences and gives equal doubles (C's ==).
ReadEqual(g1, g2, r) ==
  /\ r \notin g1.bad \cup g2.bad
  /\ DoubleEq(g1.coords[r[1]][CompIdx(r[2])], g2.coords[r[1]][CompIdx(r[2])])

\* C11: for two geometries whose coordinate sequences and sizes can be read,
\* different lengths give false whatever the coordinates and check_z; equal
\* lengths give true exactly when at every index X and Y (and Z when check_z)
\* are read and pairwise equal; two empty sequences give true.
C11_LengthsThenComponents ==
  (eq.called /\ ~Unreadable(eq.geom1) /\ ~Unreadable(eq.geom2)) =>
    /\ Len(eq.geom1.coords) # Len(eq.geom2.coords) => eq.result = Qfalse
    /\ Len(eq.geom1.coords) = Len(eq.geom2.coords) =>
         (eq.result = Qtrue <=>
            \A r \in ReadsOf(eq.geom1, eq.check_z) : ReadEqual(eq.geom1, eq.geom2, r))
    /\ (eq.geom1.coords = <<>> /\ eq.geom2.coords = <<>>) => eq.result = Qtrue

\* C11 witness: two sequences of the longest length that differ only in the Y
\* of their last coordinate compare false, Z not being checked.
C11_Witness ==
  /\ eq.called
  /\ ~eq.check_z
  /\ ~Unreadable(eq.geom1) /\ ~Unreadable(eq.geom2)
  /\ eq.geom1.bad = {} /\ eq.geom2.bad = {}
  /\ Len(eq.geom1.coords) = MaxLen /\ Len(eq.geom2.coords) = MaxLen
  /\ \A i \in 1..MaxLen :
        /\ eq.geom1.coords[i][1] = eq.geom2.coords[i][1]
        /\ (eq.geom1.coords[i][2] = eq.geom2.coords[i][2]) <=> (i < MaxLen)
  /\ eq.result = Qfalse

\* C12: the comparison is symmetric: the result for (geom1, geom2) is the
\* result for (geom2, geom1), for true, false and nil alike, whatever reads fail.
C12_Symmetric ==
  eq.called =>
    eq.result = rgeo_geos_coordseqs_eql(eq.geom2, eq.geom1, eq.check_z)

\* C12 witness: a comparison of two different sequences of the same length in
\* which only a read of the second fails; it is nil, as it is when swapped.
C12_Witness ==
  /\ eq.called
  /\ ~Unreadable(eq.geom1) /\ ~Unreadable(eq.geom2)
  /\ Len(eq.geom1.coords) = MaxLen /\ Len(eq.geom2.coords) = MaxLen
  /\ eq.geom1.coords # eq.geom2.coords
  /\ eq.geom1.bad = {}
  /\ eq.geom2.bad = {<<1, "Y">>}
  /\ eq.result = QnilResult

\* C13: destroying a factory never faults, whichever helpers it holds: a helper
\* is destroyed exactly once if it was created and never if it was not, and
\* the context is finished exactly once. While the factory lives, a helper
\* field is set exactly when that helper was created, and nothing is destroyed.
C13_HelpersDestroyedOnce ==
  /\ ~faulted
  /\ \A c \in FactoryIds :
        /\ contexts[c].finishes <= 1
        /\ \A k \in HelperKinds :
              contexts[c].destroyed[k] <= contexts[c].created[k]
              /\ contexts[c].created[k] <= 1
        /\ contexts[c].state = "finished" =>
              /\ contexts[c].finishes = 1
              /\ \A k \in HelperKinds : contexts[c].destroyed[k] = contexts[c].created[k]
        /\ contexts[c].state = "live" =>
              /\ contexts[c].finishes = 0
              /\ \A k \in HelperKinds : contexts[c].destroyed[k] = 0
  /\ \A f \in FactoryIds :
        factories[f].state = "alive" =>
          \A k \in HelperKinds :
             (factories[f][k] # NULL) <=> (contexts[factories[f].geos_context].created[k] = 1)

\* C13 witness: a factory that held only a WKB reader and a WKT writer has
\* been destroyed, and another that held no helper at all.
C13_Witness ==
  /\ last.op = "destroy_factory"
  /\ \E c \in FactoryIds :
        /\ contexts[c].state = "finished"
        /\ contexts[c].created =
             [k \in HelperKinds |-> IF k \in {"wkb_reader", "wkt_writer"} THEN 1 ELSE 0]
        /\ contexts[c].destroyed = contexts[c].created
  /\ \E c \in FactoryIds :
        /\ contexts[c].state = "finished"
        /\ contexts[c].created = [k \in HelperKinds |-> 0]

\* C14: when initGEOS_r fails, create returns nil, frees the storage it
\* allocated exactly once and registers no object for it: no factory, context
\* or reference comes to exist that a later collection could free again.
C14_FailedCreateStep ==
  (last'.op = "create" /\ last'.alloc_ok /\ ~last'.context_ok) =>
    /\ last'.result = NIL
    /\ last'.frees = 1
    /\ ~last'.registered
    /\ factories' = factories
    /\ contexts' = contexts
    /\ roots' = roots
    /\ gc' = gc

C14_FailedCreateReleasesStorage == [][C14_FailedCreateStep]_vars

\* C14 witness: a create whose context allocation failed has returned nil
\* after freeing its storage, and no factory exists.
C14_Witness ==
  /\ last.op = "create"
  /\ last.alloc_ok /\ ~last.context_ok
  /\ last.result = NIL
  /\ last.frees = 1
  /\ FactoriesMade = 0

CallRank(call) ==
  CASE call = "wkt_reader" -> 1
    [] call = "wkb_reader" -> 2
    [] call = "wkt_writer" -> 3
    [] call = "wkb_writer" -> 4
    [] call = "finishGEOS_r" -> 5
    [] OTHER -> 6

\* C15: a factory's destruction releases the WKT reader, the WKB reader, the
\* WKT writer and the WKB writer in that order, each only if present, then
\* finishes the context, then frees the factory's storage: no helper is
\* destroyed after the context is finished and the storage is freed last.
C15_DestructionOrder ==
  \A c \in FactoryIds :
     LET log == contexts[c].log
     IN /\ contexts[c].state # "finished" => log = <<>>
        /\ contexts[c].state = "finished" =>
              /\ Len(log) >= 2
              /\ log[Len(log)] = "free"
              /\ log[Len(log) - 1] = "finishGEOS_r"
              /\ \A i, j \in 1..Len(log) : i < j => CallRank(log[i]) < CallRank(log[j])
              /\ \A k \in HelperKinds :
                    (contexts[c].created[k] = 1) <=> (\E i \in 1..Len(log) : log[i] = k)

\* C15 witness: a factory holding all four helpers has been destroyed.
C15_Witness ==
  /\ last.op = "destroy_factory"
  /\ contexts[last.factory].log =
       <<"wkt_reader", "wkb_reader", "wkt_writer", "wkb_writer", "finishGEOS_r", "free">>

ReaderOp(k) == IF k = "wkt_reader" THEN "parse_wkt" ELSE "parse_wkb"

\* C16: readers are created lazily and cached. A new factory has no reader;
\* only parseWkt changes a factory's WKT reader and only parseWkb its WKB
\* reader; a reader once created is the one every later parse reuses, so at
\* most one reader of each kind is created per factory; and a reader is
\* created in the context of its own factory and in no other.
C16_ReaderStep ==
  /\ (last'.op = "create" /\ last'.result # NIL) =>
        /\ factories'[last'.result].wkt_reader = NULL
        /\ factories'[last'.result].wkb_reader = NULL
  /\ \A f \in FactoryIds, k \in {"wkt_reader", "wkb_reader"} :
        (factories[f].state = "alive" /\ factories'[f].state = "alive") =>
          LET c == factories[f].geos_context
              created == factories[f][k] = NULL /\ factories'[f][k] # NULL
          IN /\ factories'[f].geos_context = c
             /\ ~(last'.op = ReaderOp(k) /\ last'.factory = f) =>
                   factories'[f][k] = factories[f][k]
             /\ factories[f][k] # NULL =>
                   /\ factories'[f][k] = factories[f][k]
                   /\ contexts'[c].created[k] = contexts[c].created[k]
             /\ created =>
                   /\ contexts'[c].created[k] = contexts[c].created[k] + 1
                   /\ \A d \in FactoryIds \ {c} : contexts'[d].created = contexts[d].created
             /\ contexts'[c].created[k] <= 1

C16_ReadersLazyAndCached == [][C16_ReaderStep]_vars

\* C16 witness: a parseWkt call has reused the WKT reader an earlier call
\* created, the only one its context ever had, and the factory still has no
\* WKB reader.
C16_Witness ==
  /\ last.op = "parse_wkt"
  /\ last.reused /\ last.reader_ok
  /\ factories[last.factory].wkt_reader # NULL
  /\ factories[last.factory].wkb_reader = NULL
  /\ contexts[factories[last.factory].geos_context].created.wkt_reader = 1
  /\ contexts[factories[last.factory].geos_context].created.wkb_reader = 0

\* C18: a Detach asked for member classes reports the member classes the
\* coerced wrapper held if it held any, and otherwise the wrapper's own class
\* as the single fallback; when the coercion yields nothing the handle
\* returned is NULL, the member classes reported are nil and no wrapper or
\* handle changes.
C18_DetachStep ==
  (last'.op = "detach") =>
    /\ (last'.result # NIL /\ last'.want_klasses) =>
          /\ ~NIL_P(last'.hint) => last'.klasses = last'.hint
          /\ NIL_P(last'.hint) =>
                /\ last'.klasses = wrappers'[last'.result].klass
                /\ TYPE(last'.klasses) = "class"
    /\ last'.result = NIL =>
          /\ last'.geom = NULL
          /\ NIL_P(last'.klasses)
          /\ wrappers' = wrappers
          /\ geoms' = geoms
          /\ callerOwned' = callerOwned

C18_DetachReportsKlasses == [][C18_DetachStep]_vars

\* C18 witness: a Detach asked for member classes took the handle of a wrapper
\* that held none and reported the wrapper's class.
C18_Witness ==
  /\ last.op = "detach"
  /\ last.want_klasses
  /\ last.result # NIL
  /\ last.geom # NULL
  /\ NIL_P(last.hint)
  /\ last.klasses = wrappers[last.result].klass
  /\ TYPE(last.klasses) = "class"

\* The registry class the spec names for each kind of native geometry.
RegistryClass(kind) ==
  CASE kind = GEOS_POINT -> Class("Point")
    [] kind = GEOS_LINESTRING -> Class("LineString")
    [] kind = GEOS_LINEARRING -> Class("LinearRing")
    [] kind = GEOS_POLYGON -> Class("Polygon")
    [] kind = GEOS_MULTIPOINT -> Class("MultiPoint")
    [] kind = GEOS_MULTILINESTRING -> Class("MultiLineString")
    [] kind = GEOS_MULTIPOLYGON -> Class("MultiPolygon")
    [] kind = GEOS_GEOMETRYCOLLECTION -> Class("GeometryCollection")
    [] OTHER -> Class("Geometry")

CollectionKinds ==
  {GEOS_MULTIPOINT, GEOS_MULTILINESTRING, GEOS_MULTIPOLYGON, GEOS_GEOMETRYCOLLECTION}

\* C17: a wrapper made by Wrap from a hint that is not a class has the registry
\* class of its handle's kind; it keeps the hint as member classes exactly when
\* the hint is a sequence of classes and the kind is a collection kind; a
\* wrapper made from a class hint has that class and no member classes.
C17_InferredClassAndKlasses ==
  (last.op = "wrap" /\ last.result # NIL) =>
    LET w == wrappers[last.result]
    IN IF TYPE(last.hint) = "class"
       THEN w.klass = last.hint /\ NIL_P(w.klasses)
       ELSE /\ last.in_geom # NULL
            /\ w.klass = RegistryClass(geoms[last.in_geom].kind)
            /\ w.klasses = IF TYPE(last.hint) = "array"
                              /\ geoms[last.in_geom].kind \in CollectionKinds
                           THEN last.hint ELSE Qnil

\* C17 witness: a MultiPolygon handle wrapped with a sequence of classes as
\* hint has the MultiPolygon class and keeps the sequence.
C17_Witness ==
  /\ last.op = "wrap"
  /\ last.result # NIL
  /\ last.hint = ArrayHint
  /\ geoms[last.in_geom].kind = GEOS_MULTIPOLYGON
  /\ wrappers[last.result].klass = Class("MultiPolygon")
  /\ wrappers[last.result].klasses = ArrayHint

\* The calls of Wrap that dereference NULL instead of returning: a hint that is
\* not a class with an absent factory or a NULL handle, and a non-NULL handle
\* with an absent factory.
WrapFaults(factory, geom, klass, allocOk) ==
  /\ geom # NULL \/ ~NIL_P(klass)
  /\ \/ TYPE(klass) # "class" /\ (factory = NIL \/ geom = NULL)
     \/ geom # NULL /\ factory = NIL /\ allocOk

C20_WrapNeverDereferencesNull ==
  last.op = "wrap" =>
    /\ ~faulted
    /\ last.kind_queried => last.in_geom # NULL
    /\ (last.registry_read \/ last.srid_set) => last.factory # NIL

====
